---- MODULE Spec2Model ----
(***************************************************************************)
(* Model of the product search service: the batch ingestion handler, the   *)
(* image-search, text-search and recommendations handlers of               *)
(* app/controller/search_controller.py, the vector-store helpers of        *)
(* app/service/pinecone_service.py and the embedding helpers of            *)
(* app/service/embedding_service.py.                                       *)
(*                                                                         *)
(* Strings that the code takes apart or builds (names, queries, vector     *)
(* ids) are sequences of tokens; " " is the whitespace token.  Embedding   *)
(* vectors are represented by their length, the only thing the code reads. *)
(* Native similarity scores are integers in units of 10^-5, normalised     *)
(* scores are integers in units of 10^-2.                                  *)
(***************************************************************************)
EXTENDS Integers, Sequences, FiniteSets, TLC

VARIABLES IMAGE_INDEX, TEXT_INDEX, request, response, calls, branches,
          results, ranked, reranked, phase

vars == <<IMAGE_INDEX, TEXT_INDEX, request, response, calls, branches,
          results, ranked, reranked, phase>>

serviceVars == <<IMAGE_INDEX, TEXT_INDEX, request, response, calls, branches>>
mergeVars == <<results, ranked, reranked, phase>>

-----------------------------------------------------------------------------
(* Bounds *)

MaxLen == 3
MaxTopK == 2
MaxBatch == 2

-----------------------------------------------------------------------------
(* Generic helpers *)

Range(s) == {s[i] : i \in 1..Len(s)}

Min(a, b) == IF a < b THEN a ELSE b

SeqsUpTo(S, n) == UNION {[1..k -> S] : k \in 0..n}

-----------------------------------------------------------------------------
(* sorted(..., key=score, reverse=True) and list.sort(key=score,           *)
(* reverse=True): a stable sort, so entries of equal score keep their       *)
(* relative order.                                                          *)

\* Insertion before the entries of equal score (not stable)
InsertTiesFirst(s, x) ==
  LET k == Cardinality({i \in 1..Len(s) : s[i].score > x.score})
  IN SubSeq(s, 1, k) \o <<x>> \o SubSeq(s, k + 1, Len(s))

\* Insertion for an ascending order (reverse=True left out)
InsertAscending(s, x) ==
  LET k == Cardinality({i \in 1..Len(s) : s[i].score <= x.score})
  IN SubSeq(s, 1, k) \o <<x>> \o SubSeq(s, k + 1, Len(s))

\* Insertion after the entries of greater or equal score
InsertByScore(s, x) ==
  LET k == Cardinality({i \in 1..Len(s) : s[i].score >= x.score})
  IN SubSeq(s, 1, k) \o <<x>> \o SubSeq(s, k + 1, Len(s))

RECURSIVE sorted_by_score_desc(_)
sorted_by_score_desc(s) ==
  IF s = <<>> THEN <<>>
  ELSE InsertByScore(sorted_by_score_desc(SubSeq(s, 1, Len(s) - 1)), s[Len(s)])

-----------------------------------------------------------------------------
(* _deduplicate_and_rank.  The dict `merged` is the sequence of its values *)
(* in insertion order: a new key is appended, an existing key is            *)
(* overwritten in place.                                                    *)

\* The loop body without the overwrite on a greater score
MergeItemKeepFirst(merged, item) ==
  LET pos == {i \in 1..Len(merged) : merged[i].product_id = item.product_id}
  IN IF pos = {} THEN Append(merged, item) ELSE merged

\* if pid not in merged or score > merged[pid]["score"]: merged[pid] = item
MergeItem(merged, item) ==
  LET pos == {i \in 1..Len(merged) : merged[i].product_id = item.product_id}
  IN IF pos = {} THEN Append(merged, item)
     ELSE LET i == CHOOSE j \in pos : TRUE
          IN IF item.score > merged[i].score
             THEN [merged EXCEPT ![i] = item]
             ELSE merged

RECURSIVE MergeLoop(_, _)
MergeLoop(items, merged) ==
  IF items = <<>> THEN merged
  ELSE MergeLoop(Tail(items), MergeItem(merged, Head(items)))

_deduplicate_and_rank(items) == sorted_by_score_desc(MergeLoop(items, <<>>))

-----------------------------------------------------------------------------
(* Strings as token sequences *)

Space == " "

\* str.strip()
RECURSIVE LStrip(_)
LStrip(s) == IF s # <<>> /\ Head(s) = Space THEN LStrip(Tail(s)) ELSE s

RECURSIVE RStrip(_)
RStrip(s) ==
  IF s # <<>> /\ s[Len(s)] = Space THEN RStrip(SubSeq(s, 1, Len(s) - 1)) ELSE s

Strip(s) == RStrip(LStrip(s))

\* str.lower(), token by token
LowerToken(t) ==
  CASE t = "Red" -> "red"
    [] t = "Shoe" -> "shoe"
    [] OTHER -> t

Lower(s) == [i \in 1..Len(s) |-> LowerToken(s[i])]

\* str.replace(" ", "_")
ReplaceSpaces(s) == [i \in 1..Len(s) |-> IF s[i] = Space THEN "_" ELSE s[i]]

-----------------------------------------------------------------------------
(* External collaborators.  Each operator returns whether the call          *)
(* returned (ok) or raised, its value, and the external calls it made.      *)
(* The outcome of the remote side is the argument env.                      *)

IMAGE_DIM == 512
TEXT_DIM == 768

Call(name, ok, key) == [call |-> name, ok |-> ok, key |-> key, rec |-> 0]

\* fetch_image: requests.get + Image.open, any failure re-raised
fetch_image(image_url, env) ==
  [ok |-> env.fetch_image,
   error |-> "Failed to fetch image from URL",
   calls |-> <<Call("fetch_image", env.fetch_image, <<image_url>>)>>]

\* get_image_embedding: the model's vector (its length), or a raise
get_image_embedding(env) ==
  [ok |-> env.embedding # 0,
   value |-> env.embedding,
   error |-> "Failed to generate image embedding",
   calls |-> <<Call("image_embedding", env.embedding # 0, <<>>)>>]

\* get_text_embedding: empty or blank text is rejected before the API call
get_text_embedding(text, env) ==
  IF text = <<>> \/ Strip(text) = <<>>
  THEN [ok |-> FALSE, value |-> 0,
        error |-> "Text input cannot be empty for embedding",
        calls |-> <<>>]
  ELSE [ok |-> env.embedding # 0,
        value |-> env.embedding,
        error |-> "Failed to get text embedding from Gemini",
        calls |-> <<Call("text_embedding", env.embedding # 0, text)>>]

\* upsert_embedding: the stored id is "{index_type}-{product_id}"; a failed
\* index.upsert raises and writes nothing
VectorId(index_type, product_id) == <<index_type, "-">> \o product_id

upsert_embedding(product_id, embedding, metadata, index_type, store, upsertOk) ==
  LET vector == [id |-> VectorId(index_type, product_id),
                 values |-> embedding,
                 metadata |-> metadata]
      which == IF index_type = "image" THEN "image" ELSE "text"
      written == {v \in store[which] : v.id # vector.id} \cup {vector}
  IN [ok |-> upsertOk,
      error |-> "upsert failed",
      store |-> IF upsertOk THEN [store EXCEPT ![which] = written] ELSE store,
      calls |-> <<Call(IF which = "image" THEN "image_upsert" ELSE "text_upsert",
                       upsertOk, vector.id)>>]

\* round(score * 100, 2): native score in 10^-5 units, result in 10^-2 units,
\* halves to even
NormalizedScore(score) ==
  LET q == score \div 10
      r == score % 10
  IN IF r < 5 THEN q
     ELSE IF r > 5 THEN q + 1
     ELSE IF q % 2 = 0 THEN q ELSE q + 1

\* The metadata filter of a query: type equality and product_id inequality;
\* NoFilter is `None`, which the code passes on as {}
NoFilter == [type |-> "", ne |-> <<"">>]

FilterMatches(metadata, filters) ==
  /\ filters.type # "" => metadata.type = filters.type
  /\ filters.ne # <<"">> => metadata.product_id # filters.ne

RECURSIVE ToResults(_)
ToResults(matches) ==
  IF matches = <<>> THEN <<>>
  ELSE <<[product_id |-> Head(matches).id,
          score |-> NormalizedScore(Head(matches).score),
          metadata |-> Head(matches).metadata]>> \o ToResults(Tail(matches))

\* query_similar_products: the dimension check raises; a failure of
\* index.query is caught inside and an empty list is returned
query_similar_products(query_embedding, top_k, filters, index_type, env) ==
  LET which == IF index_type = "image" THEN "image" ELSE "text"
      expected_dim == IF index_type = "image" THEN IMAGE_DIM ELSE TEXT_DIM
  IN IF query_embedding # expected_dim
     THEN [ok |-> FALSE, value |-> <<>>,
           error |-> "Embedding dimension does not match",
           calls |-> <<>>]
     ELSE IF ~env.query
     THEN [ok |-> TRUE, value |-> <<>>, error |-> "",
           calls |-> <<Call(IF which = "image" THEN "image_query" ELSE "text_query",
                            FALSE, <<>>)>>]
     ELSE [ok |-> TRUE,
           value |-> sorted_by_score_desc(ToResults(env.matches)),
           error |-> "",
           calls |-> <<Call(IF which = "image" THEN "image_query" ELSE "text_query",
                            TRUE, <<>>)>>]

\* index.query: the top_k nearest stored vectors that pass the filter, each
\* with a native score, in any order
RawScores == {80001, 80004, 90000}

QueryOutcomes(index, top_k, filters) ==
  LET cands == {v \in index : FilterMatches(v.metadata, filters)}
      n == Min(top_k, Cardinality(cands))
      hits == [id : {v.id : v \in cands},
               score : RawScores,
               metadata : {v.metadata : v \in cands}]
  IN {m \in [1..n -> hits] :
        /\ \A i \in 1..n : \E v \in cands :
             v.id = m[i].id /\ v.metadata = m[i].metadata
        /\ \A i, j \in 1..n : i # j => m[i].id # m[j].id}

-----------------------------------------------------------------------------
(* POST /embed-products *)

\* product.productId or product.name.lower().replace(" ", "_")
DerivedProductId(product) ==
  IF product.productId # <<>> THEN product.productId
  ELSE ReplaceSpaces(Lower(product.name))

\* The loop body with the image entry undone when the text write fails
EmbedOneProductRollback(product, env, store) ==
  LET fetched == fetch_image(product.imageUrl, [fetch_image |-> env.fetch_image])
      image_emb == get_image_embedding([embedding |-> env.image_embedding])
      text_input == product.name \o <<".", Space>> \o product.description
                      \o <<".", Space, "Category:", Space, product.category,
                           ".", Space, "Brand:", Space>>
                      \o product.brand
                      \o <<".", Space, "Price:", Space>> \o product.price
                      \o <<".">>
      text_emb == get_text_embedding(text_input, [embedding |-> env.text_embedding])
      product_id == DerivedProductId(product)
      metadata == [product_id |-> product_id,
                   name |-> product.name,
                   description |-> product.description,
                   category |-> product.category]
      withType(t) == [product_id |-> metadata.product_id,
                      name |-> metadata.name,
                      description |-> metadata.description,
                      category |-> metadata.category,
                      type |-> t]
      image_up == upsert_embedding(product_id \o <<"_img">>, image_emb.value,
                                   withType("image"), "image", store,
                                   env.image_upsert)
      text_up == upsert_embedding(product_id \o <<"_txt">>, text_emb.value,
                                  withType("text"), "text", image_up.store,
                                  env.text_upsert)
      failure(error) == [product_name |-> product.name, error |-> error]
  IN IF ~fetched.ok
     THEN [ok |-> FALSE, entry |-> failure(fetched.error), store |-> store,
           calls |-> fetched.calls]
     ELSE IF ~image_emb.ok
     THEN [ok |-> FALSE, entry |-> failure(image_emb.error), store |-> store,
           calls |-> fetched.calls \o image_emb.calls]
     ELSE IF ~text_emb.ok
     THEN [ok |-> FALSE, entry |-> failure(text_emb.error), store |-> store,
           calls |-> fetched.calls \o image_emb.calls \o text_emb.calls]
     ELSE IF ~image_up.ok
     THEN [ok |-> FALSE, entry |-> failure(image_up.error),
           store |-> image_up.store,
           calls |-> fetched.calls \o image_emb.calls \o text_emb.calls
                       \o image_up.calls]
     ELSE IF ~text_up.ok
     THEN [ok |-> FALSE, entry |-> failure(text_up.error),
           store |-> store,
           calls |-> fetched.calls \o image_emb.calls \o text_emb.calls
                       \o image_up.calls \o text_up.calls]
     ELSE [ok |-> TRUE,
           entry |-> [product_id |-> product_id, status |-> "success",
                      stored_types |-> <<"image", "text">>],
           store |-> text_up.store,
           calls |-> fetched.calls \o image_emb.calls \o text_emb.calls
                       \o image_up.calls \o text_up.calls]

\* The body of the loop of embed_multiple_products for one product: the
\* try block up to the first raise.  env holds the outcome of each call.
EmbedOneProduct(product, env, store) ==
  LET fetched == fetch_image(product.imageUrl, [fetch_image |-> env.fetch_image])
      image_emb == get_image_embedding([embedding |-> env.image_embedding])
      text_input == product.name \o <<".", Space>> \o product.description
                      \o <<".", Space, "Category:", Space, product.category,
                           ".", Space, "Brand:", Space>>
                      \o product.brand
                      \o <<".", Space, "Price:", Space>> \o product.price
                      \o <<".">>
      text_emb == get_text_embedding(text_input, [embedding |-> env.text_embedding])
      product_id == DerivedProductId(product)
      metadata == [product_id |-> product_id,
                   name |-> product.name,
                   description |-> product.description,
                   category |-> product.category]
      withType(t) == [product_id |-> metadata.product_id,
                      name |-> metadata.name,
                      description |-> metadata.description,
                      category |-> metadata.category,
                      type |-> t]
      image_up == upsert_embedding(product_id \o <<"_img">>, image_emb.value,
                                   withType("image"), "image", store,
                                   env.image_upsert)
      text_up == upsert_embedding(product_id \o <<"_txt">>, text_emb.value,
                                  withType("text"), "text", image_up.store,
                                  env.text_upsert)
      failure(error) == [product_name |-> product.name, error |-> error]
  IN IF ~fetched.ok
     THEN [ok |-> FALSE, entry |-> failure(fetched.error), store |-> store,
           calls |-> fetched.calls]
     ELSE IF ~image_emb.ok
     THEN [ok |-> FALSE, entry |-> failure(image_emb.error), store |-> store,
           calls |-> fetched.calls \o image_emb.calls]
     ELSE IF ~text_emb.ok
     THEN [ok |-> FALSE, entry |-> failure(text_emb.error), store |-> store,
           calls |-> fetched.calls \o image_emb.calls \o text_emb.calls]
     ELSE IF ~image_up.ok
     THEN [ok |-> FALSE, entry |-> failure(image_up.error),
           store |-> image_up.store,
           calls |-> fetched.calls \o image_emb.calls \o text_emb.calls
                       \o image_up.calls]
     ELSE IF ~text_up.ok
     THEN [ok |-> FALSE, entry |-> failure(text_up.error),
           store |-> text_up.store,
           calls |-> fetched.calls \o image_emb.calls \o text_emb.calls
                       \o image_up.calls \o text_up.calls]
     ELSE [ok |-> TRUE,
           entry |-> [product_id |-> product_id, status |-> "success",
                      stored_types |-> <<"image", "text">>],
           store |-> text_up.store,
           calls |-> fetched.calls \o image_emb.calls \o text_emb.calls
                       \o image_up.calls \o text_up.calls]

TagCalls(cs, i) == [k \in 1..Len(cs) |-> [cs[k] EXCEPT !.rec = i]]

\* The loop with a body whose failure ends the batch
RECURSIVE EmbedLoopStops(_, _, _, _)
EmbedLoopStops(req, envs, i, acc) ==
  IF i > Len(req) THEN acc
  ELSE LET one == EmbedOneProduct(req[i], envs[i], acc.store)
       IN EmbedLoopStops(req, envs, IF one.ok THEN i + 1 ELSE Len(req) + 1,
            [success |-> IF one.ok THEN Append(acc.success, one.entry)
                         ELSE acc.success,
             failed |-> IF one.ok THEN acc.failed
                        ELSE Append(acc.failed, one.entry),
             store |-> one.store,
             calls |-> acc.calls \o TagCalls(one.calls, i)])

\* for product in req: ... ; every exception of the body is caught and the
\* loop goes on with the next product
RECURSIVE EmbedLoop(_, _, _, _)
EmbedLoop(req, envs, i, acc) ==
  IF i > Len(req) THEN acc
  ELSE LET one == EmbedOneProduct(req[i], envs[i], acc.store)
       IN EmbedLoop(req, envs, i + 1,
            [success |-> IF one.ok THEN Append(acc.success, one.entry)
                         ELSE acc.success,
             failed |-> IF one.ok THEN acc.failed
                        ELSE Append(acc.failed, one.entry),
             store |-> one.store,
             calls |-> acc.calls \o TagCalls(one.calls, i)])

embed_multiple_products(req, envs, store) ==
  LET done == EmbedLoop(req, envs, 1,
                        [success |-> <<>>, failed |-> <<>>, store |-> store,
                         calls |-> <<>>])
  IN [response |-> [endpoint |-> "embed-products",
                    code |-> 200,
                    detail |-> "",
                    body |-> [status |-> done.success # <<>>,
                              summary |-> [processed |-> Len(req),
                                           success_count |-> Len(done.success),
                                           failed_count |-> Len(done.failed)],
                              success |-> done.success,
                              failed |-> done.failed]],
      store |-> done.store,
      calls |-> done.calls]

-----------------------------------------------------------------------------
(* Responses *)

HTTPException(endpoint, status_code, detail) ==
  [endpoint |-> endpoint, code |-> status_code, detail |-> detail,
   body |-> [status |-> FALSE]]

Success(endpoint, body) ==
  [endpoint |-> endpoint, code |-> 200, detail |-> "", body |-> body]

Branch(ran, ok, res) == [ran |-> ran, ok |-> ok, results |-> res]
Skipped == Branch(FALSE, TRUE, <<>>)
NoBranches == [image |-> Skipped, text |-> Skipped]

Done(resp, cs) == [response |-> resp, calls |-> cs, branches |-> NoBranches]

-----------------------------------------------------------------------------
(* POST /image-search *)

NoFile == [present |-> FALSE, filename |-> <<>>, decodes |-> FALSE]

similar_product_image_search(image_url, file, top_k, env) ==
  LET ep == "image-search"
      hasFile == file.present /\ Strip(file.filename) # <<>>
      fetched == fetch_image(image_url, env)
      readCalls == IF hasFile THEN <<>> ELSE fetched.calls
      source == IF hasFile THEN "file" ELSE "url"
      embedding == get_image_embedding(env)
      queried == query_similar_products(embedding.value, top_k, NoFilter,
                                        "image", env)
  IN IF (~file.present \/ Strip(file.filename) = <<>>) /\ image_url = ""
     THEN Done(HTTPException(ep, 400, "Please provide either image_url or file."),
               <<>>)
     ELSE IF hasFile /\ ~file.decodes
     THEN Done(HTTPException(ep, 400, "Invalid uploaded image"), <<>>)
     ELSE IF ~hasFile /\ ~fetched.ok
     THEN Done(HTTPException(ep, 400, "Failed to fetch image from URL"),
               fetched.calls)
     ELSE IF ~embedding.ok
     THEN Done(HTTPException(ep, 500, "Failed to perform image search"),
               readCalls \o embedding.calls)
     ELSE IF ~queried.ok
     THEN Done(HTTPException(ep, 500, "Failed to perform image search"),
               readCalls \o embedding.calls \o queried.calls)
     ELSE Done(Success(ep, [status |-> TRUE,
                            query_type |-> source,
                            count |-> Len(queried.value),
                            results |-> queried.value]),
               readCalls \o embedding.calls \o queried.calls)

-----------------------------------------------------------------------------
(* POST /text-search *)

\* similar_product_text_search testing only `not query`
similar_product_text_search_unstripped(query, top_k, env) ==
  LET ep == "text-search"
      embedding == get_text_embedding(query, env)
      queried == query_similar_products(embedding.value, top_k, NoFilter,
                                        "text", env)
  IN IF query = <<>>
     THEN Done(HTTPException(ep, 400, "Query cannot be empty."), <<>>)
     ELSE IF ~embedding.ok
     THEN Done(HTTPException(ep, 500, "Failed to perform text search"),
               embedding.calls)
     ELSE IF ~queried.ok
     THEN Done(HTTPException(ep, 500, "Failed to perform text search"),
               embedding.calls \o queried.calls)
     ELSE Done(Success(ep, [status |-> TRUE,
                            query |-> query,
                            count |-> Len(queried.value),
                            results |-> queried.value]),
               embedding.calls \o queried.calls)

similar_product_text_search(query, top_k, env) ==
  LET ep == "text-search"
      embedding == get_text_embedding(query, env)
      queried == query_similar_products(embedding.value, top_k, NoFilter,
                                        "text", env)
  IN IF query = <<>> \/ Strip(query) = <<>>
     THEN Done(HTTPException(ep, 400, "Query cannot be empty."), <<>>)
     ELSE IF ~embedding.ok
     THEN Done(HTTPException(ep, 500, "Failed to perform text search"),
               embedding.calls)
     ELSE IF ~queried.ok
     THEN Done(HTTPException(ep, 500, "Failed to perform text search"),
               embedding.calls \o queried.calls)
     ELSE Done(Success(ep, [status |-> TRUE,
                            query |-> query,
                            count |-> Len(queried.value),
                            results |-> queried.value]),
               embedding.calls \o queried.calls)

-----------------------------------------------------------------------------
(* POST /recommendations *)

\* The image branch: its try block; any raise is caught and leaves
\* combined_results as it was
ImageBranch(image_url, top_k, filters, env) ==
  LET fetched == fetch_image(image_url, env)
      image_emb == get_image_embedding(env)
      queried == query_similar_products(image_emb.value, top_k,
                                        [filters EXCEPT !.type = "image"],
                                        "image", env)
  IN IF ~fetched.ok
     THEN [branch |-> Branch(TRUE, FALSE, <<>>), calls |-> fetched.calls]
     ELSE IF ~image_emb.ok
     THEN [branch |-> Branch(TRUE, FALSE, <<>>),
           calls |-> fetched.calls \o image_emb.calls]
     ELSE IF ~queried.ok
     THEN [branch |-> Branch(TRUE, FALSE, <<>>),
           calls |-> fetched.calls \o image_emb.calls \o queried.calls]
     ELSE [branch |-> Branch(TRUE, TRUE, queried.value),
           calls |-> fetched.calls \o image_emb.calls \o queried.calls]

\* The text branch
TextBranch(product_name, description, top_k, filters, env) ==
  LET text_input == Strip(product_name \o <<".", Space>> \o description)
      text_emb == get_text_embedding(text_input, env)
      queried == query_similar_products(text_emb.value, top_k,
                                        [filters EXCEPT !.type = "text"],
                                        "text", env)
  IN IF ~text_emb.ok
     THEN [branch |-> Branch(TRUE, FALSE, <<>>), calls |-> text_emb.calls]
     ELSE IF ~queried.ok
     THEN [branch |-> Branch(TRUE, FALSE, <<>>),
           calls |-> text_emb.calls \o queried.calls]
     ELSE [branch |-> Branch(TRUE, TRUE, queried.value),
           calls |-> text_emb.calls \o queried.calls]

NoBranch == [branch |-> Skipped, calls |-> <<>>]

\* The end of get_recommendations without the not-found check
RecommendationResponseUnchecked(mode, combined_results) ==
  LET final_results == _deduplicate_and_rank(combined_results)
  IN IF FALSE
     THEN HTTPException("recommendations", 404, "No recommendations found.")
     ELSE Success("recommendations",
                  [status |-> TRUE,
                   mode |-> mode,
                   count |-> Len(final_results),
                   recommendations |-> final_results])

\* The end of get_recommendations: not found on an empty combined list,
\* otherwise the merged and ranked list
RecommendationResponse(mode, combined_results) ==
  LET final_results == _deduplicate_and_rank(combined_results)
  IN IF combined_results = <<>>
     THEN HTTPException("recommendations", 404, "No recommendations found.")
     ELSE Success("recommendations",
                  [status |-> TRUE,
                   mode |-> mode,
                   count |-> Len(final_results),
                   recommendations |-> final_results])

\* get_recommendations with the text branch as an alternative to the image
\* branch instead of a second step
get_recommendations_elif(product_id, product_name, description, image_url, mode, top_k, imageEnv, textEnv) ==
  LET ep == "recommendations"
      filters == [type |-> "", ne |-> product_id]
      image == IF mode \in {"image", "hybrid"} /\ image_url # ""
               THEN ImageBranch(image_url, top_k, filters, imageEnv)
               ELSE NoBranch
      text == IF ~image.branch.ran /\ mode \in {"text", "hybrid"}
                 /\ (product_name # <<>> \/ description # <<>>)
              THEN TextBranch(product_name, description, top_k, filters, textEnv)
              ELSE NoBranch
      combined_results == image.branch.results \o text.branch.results
  IN IF product_id = <<>>
     THEN Done(HTTPException(ep, 400, "Product ID is required."), <<>>)
     ELSE [response |-> RecommendationResponse(mode, combined_results),
           calls |-> image.calls \o text.calls,
           branches |-> [image |-> image.branch, text |-> text.branch]]

get_recommendations(product_id, product_name, description, image_url, mode, top_k, imageEnv, textEnv) ==
  LET ep == "recommendations"
      filters == [type |-> "", ne |-> product_id]
      image == IF mode \in {"image", "hybrid"} /\ image_url # ""
               THEN ImageBranch(image_url, top_k, filters, imageEnv)
               ELSE NoBranch
      text == IF mode \in {"text", "hybrid"}
                 /\ (product_name # <<>> \/ description # <<>>)
              THEN TextBranch(product_name, description, top_k, filters, textEnv)
              ELSE NoBranch
      combined_results == image.branch.results \o text.branch.results
  IN IF product_id = <<>>
     THEN Done(HTTPException(ep, 400, "Product ID is required."), <<>>)
     ELSE [response |-> RecommendationResponse(mode, combined_results),
           calls |-> image.calls \o text.calls,
           branches |-> [image |-> image.branch, text |-> text.branch]]

-----------------------------------------------------------------------------
(* Requests and outcomes of the remote calls *)

RedShoe == [imageUrl |-> "http://img/1",
            name |-> <<"Red", Space, "Shoe">>,
            description |-> <<"comfy">>,
            category |-> "shoes",
            brand |-> <<>>,
            price |-> <<>>,
            productId |-> <<>>]

Bag == [imageUrl |-> "http://img/2",
        name |-> <<"bag">>,
        description |-> <<"leather">>,
        category |-> "bags",
        brand |-> <<"acme">>,
        price |-> <<"10.5">>,
        productId |-> <<"sku7">>]

ProductRequests == {RedShoe, Bag}

\* Outcomes of the five calls made for one product; calls after the first
\* failing one are not made, so their outcomes are left at success.
IngestEnv(f, ie, te, iu, tu) ==
  [fetch_image |-> f, image_embedding |-> ie, text_embedding |-> te,
   image_upsert |-> iu, text_upsert |-> tu]

IngestEnvs ==
  {IngestEnv(TRUE, IMAGE_DIM, TEXT_DIM, TRUE, TRUE),
   IngestEnv(FALSE, IMAGE_DIM, TEXT_DIM, TRUE, TRUE),
   IngestEnv(TRUE, 0, TEXT_DIM, TRUE, TRUE),
   IngestEnv(TRUE, IMAGE_DIM, 0, TRUE, TRUE),
   IngestEnv(TRUE, IMAGE_DIM, TEXT_DIM, FALSE, TRUE),
   IngestEnv(TRUE, IMAGE_DIM, TEXT_DIM, TRUE, FALSE)}

\* Outcomes of the calls of one search or one recommendation branch
QueryEnv(f, e, q, m) ==
  [fetch_image |-> f, embedding |-> e, query |-> q, matches |-> m]

QueryEnvs(index, top_k, filters, index_type) ==
  LET dim == IF index_type = "image" THEN IMAGE_DIM ELSE TEXT_DIM
      other == IF index_type = "image" THEN TEXT_DIM ELSE IMAGE_DIM
  IN {QueryEnv(FALSE, dim, TRUE, <<>>),
      QueryEnv(TRUE, 0, TRUE, <<>>),
      QueryEnv(TRUE, other, TRUE, <<>>),
      QueryEnv(TRUE, dim, FALSE, <<>>)}
     \cup {QueryEnv(TRUE, dim, TRUE, m) :
             m \in QueryOutcomes(index, top_k, filters)}

ImageUrls == {"", "http://img/1"}
Files == {NoFile,
          [present |-> TRUE, filename |-> <<Space>>, decodes |-> TRUE],
          [present |-> TRUE, filename |-> <<"a.png">>, decodes |-> TRUE],
          [present |-> TRUE, filename |-> <<"a.png">>, decodes |-> FALSE]}
Queries == {<<>>, <<Space>>, <<"red", Space, "shoes">>}
ProductIds == {<<>>, <<"sku7">>, <<"other">>}
ProductNames == {<<>>, <<"Red", Space, "Shoe">>}
Descriptions == {<<>>, <<"comfy">>}
Modes == {"image", "text", "hybrid", "video"}

-----------------------------------------------------------------------------
(* The service: one request at a time, handled start to finish *)

Idle == [endpoint |-> "none"]

InitService ==
  /\ IMAGE_INDEX = {}
  /\ TEXT_INDEX = {}
  /\ request = Idle
  /\ response = Idle
  /\ calls = <<>>
  /\ branches = NoBranches

Init ==
  /\ InitService
  /\ results = <<>>
  /\ ranked = <<>>
  /\ reranked = <<>>
  /\ phase = "idle"

\* A handler runs when no request is in progress
Ready == request = Idle

EmbedProducts ==
  /\ Ready
  /\ \E n \in 0..MaxBatch :
    \E req \in [1..n -> ProductRequests], envs \in [1..n -> IngestEnvs] :
      LET r == embed_multiple_products(req, envs,
                 [image |-> IMAGE_INDEX, text |-> TEXT_INDEX])
      IN /\ request' = [endpoint |-> "embed-products", req |-> req]
         /\ response' = r.response
         /\ calls' = r.calls
         /\ branches' = NoBranches
         /\ IMAGE_INDEX' = r.store.image
         /\ TEXT_INDEX' = r.store.text
         /\ UNCHANGED mergeVars

ImageSearch ==
  /\ Ready
  /\ \E image_url \in ImageUrls, file \in Files, top_k \in 1..MaxTopK :
    \E env \in QueryEnvs(IMAGE_INDEX, top_k, NoFilter, "image") :
      LET r == similar_product_image_search(image_url, file, top_k, env)
      IN /\ request' = [endpoint |-> "image-search", image_url |-> image_url,
                        file |-> file, top_k |-> top_k]
         /\ response' = r.response
         /\ calls' = r.calls
         /\ branches' = r.branches
         /\ UNCHANGED <<IMAGE_INDEX, TEXT_INDEX>>
         /\ UNCHANGED mergeVars

TextSearch ==
  /\ Ready
  /\ \E query \in Queries, top_k \in 1..MaxTopK :
    \E env \in QueryEnvs(TEXT_INDEX, top_k, NoFilter, "text") :
      LET r == similar_product_text_search(query, top_k, env)
      IN /\ request' = [endpoint |-> "text-search", query |-> query,
                        top_k |-> top_k]
         /\ response' = r.response
         /\ calls' = r.calls
         /\ branches' = r.branches
         /\ UNCHANGED <<IMAGE_INDEX, TEXT_INDEX>>
         /\ UNCHANGED mergeVars

Recommendations ==
  /\ Ready
  /\ \E product_id \in ProductIds, product_name \in ProductNames,
     description \in Descriptions, image_url \in ImageUrls, mode \in Modes,
     top_k \in 1..MaxTopK :
    \E imageEnv \in QueryEnvs(IMAGE_INDEX, top_k,
                              [type |-> "image", ne |-> product_id], "image"),
       textEnv \in QueryEnvs(TEXT_INDEX, top_k,
                             [type |-> "text", ne |-> product_id], "text") :
      LET r == get_recommendations(product_id, product_name, description,
                                   image_url, mode, top_k, imageEnv, textEnv)
      IN /\ request' = [endpoint |-> "recommendations",
                        product_id |-> product_id,
                        product_name |-> product_name,
                        description |-> description,
                        image_url |-> image_url,
                        mode |-> mode,
                        top_k |-> top_k]
         /\ response' = r.response
         /\ calls' = r.calls
         /\ branches' = r.branches
         /\ UNCHANGED <<IMAGE_INDEX, TEXT_INDEX>>
         /\ UNCHANGED mergeVars

\* The response is sent; nothing of the request outlives it
Respond ==
  /\ request # Idle
  /\ request' = Idle
  /\ response' = Idle
  /\ calls' = <<>>
  /\ branches' = NoBranches
  /\ UNCHANGED <<IMAGE_INDEX, TEXT_INDEX>>
  /\ UNCHANGED mergeVars

Next ==
  \/ EmbedProducts
  \/ ImageSearch
  \/ TextSearch
  \/ Recommendations
  \/ Respond

Spec == Init /\ [][Next]_vars

-----------------------------------------------------------------------------
(* Properties of the service *)

FailedCalls(names) ==
  {i \in 1..Len(calls) : calls[i].call \in names /\ ~calls[i].ok}

ImageCalls == {"fetch_image", "image_embedding", "image_query"}
TextCalls == {"text_embedding", "text_query"}

ImageBranchFailed ==
  \/ branches.image.ran /\ ~branches.image.ok
  \/ FailedCalls(ImageCalls) # {}

TextBranchFailed ==
  \/ branches.text.ran /\ ~branches.text.ok
  \/ FailedCalls(TextCalls) # {}

ImageBranchEnabled ==
  request.mode \in {"image", "hybrid"} /\ request.image_url # ""

TextBranchEnabled ==
  /\ request.mode \in {"text", "hybrid"}
  /\ (request.product_name # <<>> \/ request.description # <<>>)

RecommendationHandled ==
  request.endpoint = "recommendations" /\ request.product_id # <<>>

\* C3: a recommendations request whose branches produced nothing ends in
\* 404, and a success response always has count >= 1.
C3_NeverEmptySuccess ==
  request.endpoint = "recommendations" =>
    /\ response.code = 200 =>
         /\ response.body.count >= 1
         /\ response.body.count = Len(response.body.recommendations)
    /\ (request.product_id # <<>>
          /\ branches.image.results \o branches.text.results = <<>>)
         => response.code = 404

C3_Witness ==
  /\ RecommendationHandled
  /\ branches.image.ran /\ ~branches.image.ok
  /\ branches.text.ran /\ ~branches.text.ok
  /\ response.code = 404

\* C4: a failure inside one branch of a recommendations request counts as
\* zero results of that branch; the other enabled branch still runs, and
\* when it returns results the request succeeds with those results merged.
C4_BranchFailureIsolated ==
  RecommendationHandled =>
    /\ ImageBranchFailed =>
         /\ branches.image.results = <<>>
         /\ TextBranchEnabled =>
              /\ branches.text.ran
              /\ \E i \in 1..Len(calls) : calls[i].call = "text_embedding"
         /\ branches.text.results # <<>> =>
              /\ response.code = 200
              /\ response.body.recommendations =
                   _deduplicate_and_rank(branches.text.results)
    /\ TextBranchFailed =>
         /\ branches.text.results = <<>>
         /\ ImageBranchEnabled =>
              /\ branches.image.ran
              /\ \E i \in 1..Len(calls) : calls[i].call = "fetch_image"
         /\ branches.image.results # <<>> =>
              /\ response.code = 200
              /\ response.body.recommendations =
                   _deduplicate_and_rank(branches.image.results)

C4_Witness ==
  /\ RecommendationHandled
  /\ request.mode = "hybrid"
  /\ \E i \in 1..Len(calls) : calls[i].call = "fetch_image" /\ ~calls[i].ok
  /\ Len(branches.text.results) = 2
  /\ response.code = 200

\* C5: a direct search in which an external call failed, the vector-store
\* query included, never answers with a success response.
C5_SearchFailureSurfaced ==
  (request.endpoint \in {"image-search", "text-search"}
     /\ \E i \in 1..Len(calls) : ~calls[i].ok)
    => response.code # 200

RECURSIVE Pick(_, _, _)
Pick(s, keep, i) ==
  IF i > Len(s) THEN <<>>
  ELSE (IF keep[i] THEN <<s[i]>> ELSE <<>>) \o Pick(s, keep, i + 1)

\* C6: batch ingestion processes every record of the request; each record is
\* in exactly one of the success and failed lists, and
\* processed = success_count + failed_count = number of records.
C6_BatchPartition ==
  request.endpoint = "embed-products" =>
    LET req == request.req
        body == response.body
        ids == [i \in 1..Len(body.success) |-> body.success[i].product_id]
        names == [i \in 1..Len(body.failed) |-> body.failed[i].product_name]
        reqIds == [i \in 1..Len(req) |-> DerivedProductId(req[i])]
        reqNames == [i \in 1..Len(req) |-> req[i].name]
    IN /\ body.summary.processed = Len(req)
       /\ body.summary.success_count + body.summary.failed_count = Len(req)
       /\ body.summary.success_count = Len(body.success)
       /\ body.summary.failed_count = Len(body.failed)
       /\ \A r \in 1..Len(req) : \E i \in 1..Len(calls) : calls[i].rec = r
       /\ \E ok \in [1..Len(req) -> BOOLEAN] :
            /\ ids = Pick(reqIds, ok, 1)
            /\ names = Pick(reqNames, [i \in 1..Len(req) |-> ~ok[i]], 1)

C6_Witness ==
  /\ request.endpoint = "embed-products"
  /\ Len(request.req) = 2
  /\ Len(response.body.failed) = 1
  /\ Len(response.body.success) = 1
  /\ ~calls[1].ok

ValidationFails ==
  \/ /\ request.endpoint = "text-search"
     /\ Strip(request.query) = <<>>
  \/ /\ request.endpoint = "image-search"
     /\ ~request.file.present \/ Strip(request.file.filename) = <<>>
     /\ request.image_url = ""
  \/ /\ request.endpoint = "recommendations"
     /\ request.product_id = <<>>

\* C7: a request that fails input validation gets a client error and makes
\* no external call.
C7_ValidationBeforeCalls ==
  ValidationFails => response.code = 400 /\ calls = <<>>

C7_Witness ==
  /\ request.endpoint = "text-search"
  /\ request.query = <<Space>>
  /\ response.code = 400
  /\ response.detail = "Query cannot be empty."

\* C8: in a hybrid recommendations response a product returned by both the
\* image branch and the text branch appears once.
C8_SameProductOnce ==
  (RecommendationHandled /\ request.mode = "hybrid" /\ response.code = 200) =>
    \A i, j \in 1..Len(response.body.recommendations) :
      i # j => response.body.recommendations[i].metadata.product_id
                 # response.body.recommendations[j].metadata.product_id

FailedRecords == {calls[i].rec : i \in FailedCalls({"fetch_image",
                    "image_embedding", "text_embedding", "image_upsert",
                    "text_upsert"})}

\* The product id inside a stored vector id "{index_type}-{product_id}{suffix}"
KeyProduct(key) == SubSeq(key, 3, Len(key) - 1)

\* C9: ingestion writes the image entry before the text entry; when the text
\* write fails the record is reported failed and its image entry stays in
\* the store; a text write is always preceded by the successful image write
\* of the same record.
C9_NotTransactional ==
  request.endpoint = "embed-products" =>
    \A i \in 1..Len(calls) :
      calls[i].call = "text_upsert" =>
        /\ i > 1
        /\ calls[i - 1].call = "image_upsert"
        /\ calls[i - 1].ok
        /\ calls[i - 1].rec = calls[i].rec
        /\ KeyProduct(calls[i - 1].key) = KeyProduct(calls[i].key)
        /\ ~calls[i].ok =>
             LET r == calls[i].rec
                 k == Cardinality({f \in FailedRecords : f <= r})
             IN /\ k \in 1..Len(response.body.failed)
                /\ response.body.failed[k].product_name = request.req[r].name
                /\ \E v \in IMAGE_INDEX : v.id = calls[i - 1].key

C9_Witness ==
  /\ request.endpoint = "embed-products"
  /\ \E i \in 1..Len(calls) :
       /\ calls[i].call = "text_upsert"
       /\ ~calls[i].ok
       /\ \E v \in IMAGE_INDEX : v.id = calls[i - 1].key
       /\ ~\E v \in TEXT_INDEX : v.id = calls[i].key

-----------------------------------------------------------------------------
(* The rank merger on arbitrary input lists *)

MergeIds == {"a", "b", "c"}
MergeScores == {8000, 9000, 9500}
MergeMeta == {"image", "text"}
MergeItems == [product_id : MergeIds, score : MergeScores, metadata : MergeMeta]

InitMerge ==
  /\ InitService
  /\ results \in SeqsUpTo(MergeItems, MaxLen)
  /\ ranked = <<>>
  /\ reranked = <<>>
  /\ phase = "input"

Merge ==
  /\ phase = "input"
  /\ ranked' = _deduplicate_and_rank(results)
  /\ phase' = "merged"
  /\ UNCHANGED <<results, reranked>>
  /\ UNCHANGED serviceVars

Remerge ==
  /\ phase = "merged"
  /\ reranked' = _deduplicate_and_rank(ranked)
  /\ phase' = "remerged"
  /\ UNCHANGED <<results, ranked>>
  /\ UNCHANGED serviceVars

NextMerge == Merge \/ Remerge

SpecMerge == InitMerge /\ [][NextMerge]_vars

IdsOf(s) == {s[i].product_id : i \in 1..Len(s)}

MaxScoreOf(s, pid) ==
  CHOOSE m \in {s[i].score : i \in {j \in 1..Len(s) : s[j].product_id = pid}} :
    \A i \in 1..Len(s) : s[i].product_id = pid => s[i].score <= m

\* C1: the merger's output holds exactly one entry per distinct identifier of
\* the input, and that entry's score is the maximum score the input has for
\* the identifier.
C1_OnePerIdWithMaxScore ==
  phase # "input" =>
    /\ IdsOf(ranked) = IdsOf(results)
    /\ Len(ranked) = Cardinality(IdsOf(results))
    /\ \A i \in 1..Len(ranked) :
         /\ ranked[i] \in Range(results)
         /\ ranked[i].score = MaxScoreOf(results, ranked[i].product_id)

C1_Witness ==
  /\ phase = "merged"
  /\ Len(results) = 3
  /\ Len(ranked) = 2
  /\ \E i, j \in 1..Len(results) :
       /\ i < j
       /\ results[i].product_id = results[j].product_id
       /\ results[i].score < results[j].score

\* C2: the merger's output is sorted non-increasing by score.
C2_SortedNonIncreasing ==
  phase # "input" =>
    \A i \in 1..(Len(ranked) - 1) : ranked[i].score >= ranked[i + 1].score

C2_Witness ==
  /\ phase = "merged"
  /\ Len(ranked) = 3
  /\ results[1].score < results[2].score
  /\ results[2].score < results[3].score

\* C10: the merger is idempotent: merging its own output gives the same
\* entries in the same order, also when different identifiers tie on score.
C10_Idempotent ==
  phase = "remerged" => reranked = ranked

C10_Witness ==
  /\ phase = "remerged"
  /\ \E i, j \in 1..Len(ranked) :
       /\ i # j
       /\ ranked[i].score = ranked[j].score
       /\ ranked[i].product_id # ranked[j].product_id
  /\ ranked # results

====
